---------------------------- MODULE Spec2Model ----------------------------
(***************************************************************************)
(* Model of backend-server.js (Profit AI, Aster Dex edition): the          *)
(* indicator library, the trading engine's decision loop with every await  *)
(* point as a separate step, the venue gateway's answers as inputs, and    *)
(* the HTTP handlers that read or change the shared state.                 *)
(*                                                                         *)
(* Number representation (JavaScript doubles are modelled by exact         *)
(* integers on fixed grids; floating-point rounding is not modelled):      *)
(*   - candle prices (high, low, close) and entryPrice/exitPrice are in    *)
(*     ticks of 0.0001 USDT, the four decimals the program prints and      *)
(*     sends to the venue (toFixed(4));                                    *)
(*   - values derived from averages (ma100, atrStop, stopLoss, takeProfit) *)
(*     are in 1/PxScale ticks, PxScale = MA_PERIOD * ATR_PERIOD, so that   *)
(*     sum/100 and sum/10 are exact;                                       *)
(*   - quantities are in lots of 0.1 (Math.floor(x * 10) / 10);            *)
(*   - money (balance, profit) is in tenths of a tick, so that             *)
(*     priceDifference * quantity is exact.                                *)
(* A candle array is held run-length encoded (a sequence of runs of equal   *)
(* candles); Candles expands it to the array the indicators read.          *)
(* Wall-clock values (timestamp, lastUpdate, new Date()) are not modelled. *)
(***************************************************************************)
EXTENDS Integers, Sequences, FiniteSets, TLC

VARIABLES
    tradingState,   \* the global tradingState object (lines 38-45)
    isRunning,      \* tradingEngine.isRunning
    pc,             \* where the startServer/start task is suspended
    frame,          \* locals of the suspended openPosition/closePosition call
    venue,          \* the venue's side: net position and resting stop orders
    stopRequested,  \* history: a stop command has been received
    inFlight,       \* history: checkForSignals invocations begun and not ended
    cycle,          \* history: what the current evaluation cycle has done
    call            \* an indicator call on its own: its arguments and its result

vars == <<tradingState, isRunning, pc, frame, venue,
          stopRequested, inFlight, cycle, call>>

----------------------------------------------------------------------------
\* CONFIG (lines 22-36), environment defaults

POSITION_SIZE == 100
LEVERAGE == 10
MA_PERIOD == 100
ATR_PERIOD == 10
ATR_MULTIPLIER == 3
RISK_REWARD_RATIO == 1

\* lookback of detectSmartMoneySignal (lines 246, 249)
SMART_MONEY_PERIOD == 20

\* one tick in units of the averaged values
PxScale == MA_PERIOD * ATR_PERIOD

\* JavaScript null / undefined
Null == [isNull |-> TRUE]

----------------------------------------------------------------------------
\* Bounds of the model

\* closed trades after which the venue accepts no further entry order
MaxTrades == 2
\* the venue may return series that are 1 .. MaxShort bars short of MA_PERIOD
MaxShort == 1
\* an indicator called on its own is given series of up to MA_PERIOD + MaxExtra bars
MaxExtra == 1

----------------------------------------------------------------------------
\* Inputs: what the venue can answer

Max(a, b) == IF a >= b THEN a ELSE b
Min(a, b) == IF a <= b THEN a ELSE b
Abs(a) == IF a >= 0 THEN a ELSE -a

\* a candle as getKlines maps it (lines 105-112); timestamp and open are never read
Candle(h, l, c, v) == [high |-> h, low |-> l, close |-> c, volume |-> v]

\* the quiet bar: price 1.0000 (in ticks), volume 1000
BaseCandle == Candle(10000, 10000, 10000, 1000)
\* close and volume of the last bar of a series: a move of 0.3% on doubled volume
\* up or down, a quiet move of 0.6% up or down, a quiet move of 0.4% up
LastBars ==
    {<<9940, 1000>>, <<9970, 2000>>, <<10030, 2000>>, <<10040, 1000>>, <<10060, 1000>>}
\* the last bar that makes a LONG signal on a full series
SignalBar == <<10030, 2000>>
ShortLens == (MA_PERIOD - MaxShort) .. (MA_PERIOD - 1)

\* n bars: n-1 quiet bars, then one bar moving to close c on volume v
Series(n, c, v) ==
    <<[count |-> n - 1, candle |-> BaseCandle],
      [count |-> 1,
       candle |-> Candle(Max(c, BaseCandle.close), Min(c, BaseCandle.close), c, v)]>>

\* klines.length
RECURSIVE BarCount(_)
BarCount(series) ==
    IF series = <<>> THEN 0 ELSE Head(series).count + BarCount(Tail(series))

\* the candle array
RECURSIVE Candles(_)
Candles(series) ==
    IF series = <<>> THEN <<>>
    ELSE [i \in 1..Head(series).count |-> Head(series).candle] \o Candles(Tail(series))

\* klines[klines.length - 1]
LastCandle(series) == series[Len(series)].candle

\* getKlines: the mapped candles, or [] on failure (lines 99-117)
KlineResponses ==
    {<<>>} \cup {Series(MA_PERIOD, b[1], b[2]) : b \in LastBars}
           \cup {Series(n, SignalBar[1], SignalBar[2]) : n \in ShortLens}

\* getBalance: the available balance, or 0 on failure (lines 68-85)
BalanceResponses == {0, 500, 300000}

\* order ids the venue hands out
OrderIds == {101}

\* placeMarketOrder / placeStopOrder: response.data, or null (lines 138-174)
OrderResponses == {Null} \cup {[orderId |-> id] : id \in OrderIds}

----------------------------------------------------------------------------
\* Indicators (lines 216-302)

RECURSIVE SumClose(_, _, _)
SumClose(data, from, to) ==
    IF from > to THEN 0 ELSE data[from].close + SumClose(data, from + 1, to)

RECURSIVE SumVolume(_, _, _)
SumVolume(data, from, to) ==
    IF from > to THEN 0 ELSE data[from].volume + SumVolume(data, from + 1, to)

\* calculateSMA times period: the sum of the last `period` closes; Null when short
calculateSMA(data, period) ==
    IF Len(data) < period THEN Null
    ELSE [sum |-> SumClose(data, Len(data) - period + 1, Len(data))]

TrueRange(data, i) ==
    Max(data[i].high - data[i].low,
        Max(Abs(data[i].high - data[i - 1].close),
            Abs(data[i].low - data[i - 1].close)))

RECURSIVE SumTrueRange(_, _, _)
SumTrueRange(data, from, to) ==
    IF from > to THEN 0 ELSE TrueRange(data, from) + SumTrueRange(data, from + 1, to)

\* calculateATR times period: the sum of the last `period` true ranges
calculateATR(data, period) ==
    IF Len(data) < period + 1 THEN Null
    ELSE [sum |-> SumTrueRange(data, Len(data) - period + 1, Len(data))]

\* calculateATRTrailingStop: value = close - atr * multiplier, in 1/PxScale ticks
calculateATRTrailingStop(data, atrPeriod, atrMultiplier) ==
    IF Len(data) < atrPeriod + 1 THEN Null
    ELSE LET atr == calculateATR(data, atrPeriod)
             currentPrice == data[Len(data)].close
         IN  [value |-> currentPrice * PxScale
                          - atr.sum * atrMultiplier * (PxScale \div atrPeriod),
              atr |-> atr.sum * (PxScale \div atrPeriod)]

\* detectSmartMoneySignal: "BUY", "SELL" or "null"
detectSmartMoneySignal(data) ==
    IF Len(data) < SMART_MONEY_PERIOD THEN "null"
    ELSE LET current == data[Len(data)]
             previous == data[Len(data) - 1]
             volSum == SumVolume(data, Len(data) - SMART_MONEY_PERIOD + 1, Len(data))
             \* current.volume > avgVolume * 1.5
             volumeSpike == current.volume * SMART_MONEY_PERIOD * 2 > volSum * 3
             \* |close - prevClose| / prevClose > 0.002
             strongMomentum == Abs(current.close - previous.close) * 1000
                                  > 2 * previous.close
         IN  IF volumeSpike /\ current.close > previous.close /\ strongMomentum
             THEN "BUY"
             ELSE IF volumeSpike /\ current.close < previous.close /\ strongMomentum
             THEN "SELL"
             ELSE "null"

\* mutant: the trend condition (trailing stop against moving average) is dropped
checkEntrySignal_trendIgnored(data) ==
    IF Len(data) < 100 THEN Null
    ELSE LET sma == calculateSMA(data, MA_PERIOD)
             atrStop == calculateATRTrailingStop(data, ATR_PERIOD, ATR_MULTIPLIER)
             smartMoneySignal == detectSmartMoneySignal(data)
         IN  IF sma = Null \/ atrStop = Null THEN Null
             ELSE IF sma.sum = 0 THEN Null
             ELSE LET ma100 == sma.sum * (PxScale \div MA_PERIOD)
                      currentPrice == data[Len(data)].close
                  IN  IF smartMoneySignal = "BUY"
                      THEN [type |-> "LONG",
                            entryPrice |-> currentPrice,
                            stopLoss |-> ma100,
                            takeProfit |-> currentPrice * PxScale
                                + (currentPrice * PxScale - ma100) * RISK_REWARD_RATIO,
                            ma100 |-> ma100, atrStop |-> atrStop.value]
                      ELSE IF smartMoneySignal = "SELL"
                      THEN [type |-> "SHORT",
                            entryPrice |-> currentPrice,
                            stopLoss |-> ma100,
                            takeProfit |-> currentPrice * PxScale
                                - (ma100 - currentPrice * PxScale) * RISK_REWARD_RATIO,
                            ma100 |-> ma100, atrStop |-> atrStop.value]
                      ELSE Null

\* mutant: no minimum length; the average is taken over the bars there are
checkEntrySignal_noMinimum(data) ==
    LET period == Min(Len(data), MA_PERIOD)
        sma == calculateSMA(data, period)
        atrStop == calculateATRTrailingStop(data, ATR_PERIOD, ATR_MULTIPLIER)
        smartMoneySignal == detectSmartMoneySignal(data)
    IN  IF period = 0 \/ sma = Null \/ atrStop = Null THEN Null
        ELSE IF sma.sum = 0 THEN Null
        ELSE LET ma100 == (sma.sum * PxScale) \div period
                 currentPrice == data[Len(data)].close
             IN  IF atrStop.value > ma100 /\ smartMoneySignal = "BUY"
                 THEN [type |-> "LONG",
                       entryPrice |-> currentPrice,
                       stopLoss |-> ma100,
                       takeProfit |-> currentPrice * PxScale
                           + (currentPrice * PxScale - ma100) * RISK_REWARD_RATIO,
                       ma100 |-> ma100, atrStop |-> atrStop.value]
                 ELSE IF atrStop.value < ma100 /\ smartMoneySignal = "SELL"
                 THEN [type |-> "SHORT",
                       entryPrice |-> currentPrice,
                       stopLoss |-> ma100,
                       takeProfit |-> currentPrice * PxScale
                           - (ma100 - currentPrice * PxScale) * RISK_REWARD_RATIO,
                       ma100 |-> ma100, atrStop |-> atrStop.value]
                 ELSE Null

\* checkEntrySignal: a signal record or Null
checkEntrySignal(data) ==
    IF Len(data) < 100 THEN Null
    ELSE LET sma == calculateSMA(data, MA_PERIOD)
             atrStop == calculateATRTrailingStop(data, ATR_PERIOD, ATR_MULTIPLIER)
             smartMoneySignal == detectSmartMoneySignal(data)
         IN  IF sma = Null \/ atrStop = Null THEN Null
             ELSE IF sma.sum = 0 THEN Null       \* !ma100 when ma100 is 0
             ELSE LET ma100 == sma.sum * (PxScale \div MA_PERIOD)
                      currentPrice == data[Len(data)].close
                  IN  IF atrStop.value > ma100 /\ smartMoneySignal = "BUY"
                      THEN LET risk == currentPrice * PxScale - ma100
                           IN  [type |-> "LONG",
                                entryPrice |-> currentPrice,
                                stopLoss |-> ma100,
                                takeProfit |-> currentPrice * PxScale
                                                 + risk * RISK_REWARD_RATIO,
                                ma100 |-> ma100, atrStop |-> atrStop.value]
                      ELSE IF atrStop.value < ma100 /\ smartMoneySignal = "SELL"
                      THEN LET risk == ma100 - currentPrice * PxScale
                           IN  [type |-> "SHORT",
                                entryPrice |-> currentPrice,
                                stopLoss |-> ma100,
                                takeProfit |-> currentPrice * PxScale
                                                 - risk * RISK_REWARD_RATIO,
                                ma100 |-> ma100, atrStop |-> atrStop.value]
                      ELSE Null

\* checkEntrySignal of every series the venue can return, computed once
EntrySignal == [series \in KlineResponses |-> checkEntrySignal(Candles(series))]

\* mutant: the comparisons are strict
checkExit_strict(position, currentPrice) ==
    LET price == currentPrice * PxScale
    IN  IF position.type = "LONG"
        THEN IF price < position.stopLoss
             THEN [exit |-> TRUE, reason |-> "STOP_LOSS", price |-> currentPrice]
             ELSE IF price > position.takeProfit
             THEN [exit |-> TRUE, reason |-> "TAKE_PROFIT", price |-> currentPrice]
             ELSE [exit |-> FALSE]
        ELSE IF price > position.stopLoss
             THEN [exit |-> TRUE, reason |-> "STOP_LOSS", price |-> currentPrice]
             ELSE IF price < position.takeProfit
             THEN [exit |-> TRUE, reason |-> "TAKE_PROFIT", price |-> currentPrice]
             ELSE [exit |-> FALSE]

\* checkExit: currentPrice in ticks against the position's levels
checkExit(position, currentPrice) ==
    LET price == currentPrice * PxScale
    IN  IF position.type = "LONG"
        THEN IF price <= position.stopLoss
             THEN [exit |-> TRUE, reason |-> "STOP_LOSS", price |-> currentPrice]
             ELSE IF price >= position.takeProfit
             THEN [exit |-> TRUE, reason |-> "TAKE_PROFIT", price |-> currentPrice]
             ELSE [exit |-> FALSE]
        ELSE IF price >= position.stopLoss
             THEN [exit |-> TRUE, reason |-> "STOP_LOSS", price |-> currentPrice]
             ELSE IF price <= position.takeProfit
             THEN [exit |-> TRUE, reason |-> "TAKE_PROFIT", price |-> currentPrice]
             ELSE [exit |-> FALSE]

----------------------------------------------------------------------------
\* Trading engine helpers (lines 361-428)

\* line 364-365: Math.floor((balance * POSITION_SIZE / 100 * LEVERAGE / entryPrice) * 10) / 10,
\* in lots of 0.1; balance in tenths of a tick, entryPrice in ticks
Quantity(balance, entryPrice) ==
    (balance * POSITION_SIZE * LEVERAGE) \div (100 * entryPrice)

\* mutant: the sizing test lets a zero quantity through
QuantityTooSmall_strict(quantity) == quantity < 0

\* line 367: if (quantity <= 0)
QuantityTooSmall(quantity) == quantity <= 0

\* mutant: the stop order is placed on the entry's side
StopSide_same(signal) == IF signal.type = "LONG" THEN "BUY" ELSE "SELL"

\* lines 372, 384
EntrySide(signal) == IF signal.type = "LONG" THEN "BUY" ELSE "SELL"
StopSide(signal) == IF signal.type = "LONG" THEN "SELL" ELSE "BUY"

\* Number.prototype.toFixed(4) of a value in 1/PxScale ticks: the nearest tick
toFixed4(x) == (2 * x + PxScale) \div (2 * PxScale)

\* lines 377-381: { ...signal, quantity, timestamp, orderId: order.orderId }
NewPosition(signal, quantity, order) ==
    [type |-> signal.type, entryPrice |-> signal.entryPrice,
     stopLoss |-> signal.stopLoss, takeProfit |-> signal.takeProfit,
     ma100 |-> signal.ma100, atrStop |-> signal.atrStop,
     quantity |-> quantity, orderId |-> order.orderId]

\* mutant: the realized profit is not scaled by the leverage
Profit_unleveraged(position, exitPrice) ==
    IF position.type = "LONG"
    THEN (exitPrice - position.entryPrice) * position.quantity
    ELSE (position.entryPrice - exitPrice) * position.quantity

\* lines 398-402: realized profit, in tenths of a tick
Profit(position, exitPrice) ==
    (IF position.type = "LONG"
     THEN (exitPrice - position.entryPrice) * position.quantity
     ELSE (position.entryPrice - exitPrice) * position.quantity) * LEVERAGE

\* mutant: the unrealized P&L is scaled by the leverage like the realized profit
UnrealizedPnL_leveraged(position, currentPrice) ==
    (IF position.type = "LONG"
     THEN (currentPrice - position.entryPrice) * position.quantity
     ELSE (position.entryPrice - currentPrice) * position.quantity) * LEVERAGE

\* lines 344-346: the unrealized P&L the no-exit cycle logs, in tenths of a tick
UnrealizedPnL(position, currentPrice) ==
    IF position.type = "LONG"
    THEN (currentPrice - position.entryPrice) * position.quantity
    ELSE (position.entryPrice - currentPrice) * position.quantity

\* lines 404-412
NewTrade(position, reason, exitPrice) ==
    [type |-> position.type, entryPrice |-> position.entryPrice,
     exitPrice |-> exitPrice, quantity |-> position.quantity,
     profit |-> Profit(position, exitPrice), reason |-> reason]

\* line 414: tradingState.trades.push(trade)
PushTrade(trades, trade) == Append(trades, trade)

\* mutant: the flag is set and the position is not stored
Opened_flagOnly(ts, position) == [ts EXCEPT !.inPosition = TRUE]

\* lines 376-381: the position is stored
Opened(ts, position) ==
    [ts EXCEPT !.inPosition = TRUE, !.currentPosition = position]

\* mutant: the close does not record the trade
Closed_noPush(ts, trade) ==
    [ts EXCEPT !.balance = @ + trade.profit,
               !.inPosition = FALSE,
               !.currentPosition = Null]

\* mutant: the close overwrites the balance with the profit
Closed_balanceReplaced(ts, trade) ==
    [ts EXCEPT !.trades = PushTrade(@, trade),
               !.balance = trade.profit,
               !.inPosition = FALSE,
               !.currentPosition = Null]

\* lines 414-423: the trade is recorded and the position cleared
Closed(ts, trade) ==
    [ts EXCEPT !.trades = PushTrade(@, trade),
               !.balance = @ + trade.profit,
               !.inPosition = FALSE,
               !.currentPosition = Null]

\* line 375, 397: if (order)
OrderPlaced(order) == order # Null

\* mutant: the `return` is missing and the branch falls through to the entry check
ReturnsAfterPositionBranch_missing == FALSE

\* line 349: the in-position branch of checkForSignals ends with `return`
ReturnsAfterPositionBranch == TRUE

\* line 339: if (tradingState.inPosition && tradingState.currentPosition)
InPositionBranch == tradingState.inPosition /\ tradingState.currentPosition # Null

\* the venue applies a filled market order to its net position (in lots of 0.1)
VenueFill(positionAmt, side, quantity) ==
    IF side = "BUY" THEN positionAmt + quantity ELSE positionAmt - quantity

----------------------------------------------------------------------------
\* History of the current evaluation cycle

Pending == [pending |-> TRUE]

Snapshot(ts) ==
    [balance |-> ts.balance, inPosition |-> ts.inPosition,
     currentPosition |-> ts.currentPosition, trades |-> ts.trades]

AccountSnapshot == Snapshot(tradingState)

\* start: the account when the cycle began; sizing: the balance openPosition read
\* and the quantity it computed; orders: the orders submitted, in order, each with
\* the venue's answer; failures: the gateway calls that failed; logged: the
\* price and unrealized P&L the no-exit branch printed
NewCycle(ts) ==
    [start |-> Snapshot(ts), exitChecked |-> FALSE, entryChecked |-> FALSE,
     sizing |-> Null, orders |-> <<>>, failures |-> {}, logged |-> Null]

Submitted(c, kind, side, quantity, stopPrice) ==
    [c EXCEPT !.orders = Append(@, [kind |-> kind, side |-> side, quantity |-> quantity,
                                    stopPrice |-> stopPrice, response |-> Pending])]

Answered(c, order) == [c EXCEPT !.orders[Len(c.orders)].response = order]

Failed(c, what) == [c EXCEPT !.failures = @ \cup {what}]

EmptyFrame ==
    [signal |-> Null, quantity |-> 0, position |-> Null, reason |-> "null",
     exitPrice |-> 0, side |-> "null", positionAmt |-> 0]

\* no indicator call is under way on its own
NoCall ==
    [fn |-> "none", position |-> Null, currentPrice |-> 0, data |-> <<>>,
     result |-> Null]

----------------------------------------------------------------------------
\* Initial state: startServer has passed the credentials check, called
\* app.listen, constructed the engine (isRunning = false) and is suspended in
\* initialize() at `await this.api.setLeverage` (lines 38-45, 308-311, 496-508)

Init ==
    /\ tradingState = [balance |-> 0, inPosition |-> FALSE, currentPosition |-> Null,
                       trades |-> <<>>, priceData |-> <<>>]
    /\ isRunning = FALSE
    /\ pc = "init_leverage"
    /\ frame = EmptyFrame
    /\ venue = [positionAmt |-> 0, stops |-> <<>>]
    /\ stopRequested = FALSE
    /\ inFlight = 0
    /\ cycle = NewCycle(tradingState)
    /\ call = NoCall

\* lines 328-331: updatePriceData keeps the old series when the new one is empty
UpdatedPriceData(klines) ==
    IF BarCount(klines) > 0 THEN klines ELSE tradingState.priceData

\* mutant: checkForSignals is called without `await`, the timer runs beside it
AwaitingTimer_notAwaited ==
    pc \in {"sleep", "check_klines", "open_balance", "open_market", "open_stop",
            "close_position", "close_market"}

\* lines 435-439: start() is suspended on the timer, which it reaches only when
\* checkForSignals has settled
AwaitingTimer == pc = "sleep"

\* mutant: a cycle in which a gateway call failed ends the loop
EndCycle_failureEndsLoop(c) ==
    /\ pc' = IF c.failures # {} THEN "done" ELSE "sleep"
    /\ frame' = EmptyFrame
    /\ inFlight' = inFlight - 1
    /\ cycle' = c

\* the cycle's body has returned; start() suspends on the timer (line 439)
EndCycle(c) ==
    /\ pc' = "sleep"
    /\ frame' = EmptyFrame
    /\ inFlight' = inFlight - 1
    /\ cycle' = c

\* lines 433-435 and 334-335: the loop test passed, checkForSignals is called and
\* suspends in updatePriceData at `await this.api.getKlines`
BeginCycle(ts) ==
    /\ pc' = "check_klines"
    /\ inFlight' = inFlight + 1
    /\ cycle' = NewCycle(ts)

\* lines 352-358: the entry check; on a signal openPosition is called and suspends
\* at `await this.api.getBalance()` (line 363)
EntryCheck(c, data) ==
    LET signal == EntrySignal[data]
        c1 == [c EXCEPT !.entryChecked = TRUE]
    IN  IF signal # Null
        THEN /\ pc' = "open_balance"
             /\ frame' = [EmptyFrame EXCEPT !.signal = signal]
             /\ cycle' = c1
             /\ UNCHANGED inFlight
        ELSE EndCycle(c1)

\* lines 339-350: what follows the in-position branch
AfterPositionBranch(c, data) ==
    IF ReturnsAfterPositionBranch THEN EndCycle(c) ELSE EntryCheck(c, data)

\* initialize(), line 318: setLeverage answered (its result is ignored);
\* suspended at `await this.api.getBalance()`
InitLeverage ==
    /\ pc = "init_leverage"
    /\ pc' = "init_balance"
    /\ UNCHANGED <<tradingState, isRunning, frame, venue, stopRequested, inFlight, cycle,
                 call>>

\* initialize(), lines 319-322: balance stored; suspended in updatePriceData
InitBalance(balance) ==
    /\ pc = "init_balance"
    /\ tradingState' = [tradingState EXCEPT !.balance = balance]
    /\ pc' = "init_klines"
    /\ UNCHANGED <<isRunning, frame, venue, stopRequested, inFlight, cycle, call>>

\* initialize() finishes (lines 326-332, 323), startServer calls start() (line 509):
\* isRunning = true, the loop test passes and the first cycle begins (lines 431-435)
InitKlines(klines) ==
    /\ pc = "init_klines"
    /\ tradingState' = [tradingState EXCEPT !.priceData = UpdatedPriceData(klines)]
    /\ isRunning' = TRUE
    /\ BeginCycle(tradingState')
    /\ UNCHANGED <<frame, venue, stopRequested, call>>

\* start(), lines 433-440: the timer fired; the loop test either begins the next
\* cycle or ends the loop
LoopTest ==
    /\ AwaitingTimer
    /\ IF isRunning
       THEN BeginCycle(tradingState)
       ELSE /\ pc' = "done"
            /\ UNCHANGED <<inFlight, cycle>>
    /\ UNCHANGED <<tradingState, isRunning, frame, venue, stopRequested, call>>

\* checkForSignals, lines 335-359, from the klines' arrival to the next await
CheckForSignals(klines) ==
    /\ pc = "check_klines"
    /\ LET data == UpdatedPriceData(klines)
           c0 == IF BarCount(klines) > 0 THEN cycle ELSE Failed(cycle, "klines")
           currentPrice == IF BarCount(data) > 0 THEN LastCandle(data).close ELSE 0
       IN  /\ tradingState' = [tradingState EXCEPT !.priceData = data]
           /\ IF currentPrice = 0                      \* line 337: !currentPrice
              THEN EndCycle(c0)
              ELSE IF InPositionBranch
              THEN LET exitCheck == checkExit(tradingState.currentPosition, currentPrice)
                       c1 == [c0 EXCEPT !.exitChecked = TRUE]
                   IN  IF exitCheck.exit
                       THEN \* closePosition, lines 394-395, and api.closePosition,
                            \* line 196: suspended at `await this.getPosition`
                            /\ pc' = "close_position"
                            /\ frame' = [EmptyFrame EXCEPT
                                           !.position = tradingState.currentPosition,
                                           !.reason = exitCheck.reason,
                                           !.exitPrice = exitCheck.price]
                            /\ cycle' = c1
                            /\ UNCHANGED inFlight
                       ELSE \* lines 344-347: the unrealized P&L is logged
                            AfterPositionBranch(
                                [c1 EXCEPT !.logged =
                                    [price |-> currentPrice,
                                     unrealizedPnL |->
                                         UnrealizedPnL(tradingState.currentPosition,
                                                       currentPrice)]],
                                data)
              ELSE EntryCheck(c0, data)
    /\ UNCHANGED <<isRunning, venue, stopRequested, call>>

\* openPosition, lines 363-373: balance answered, quantity computed, and either the
\* entry is abandoned or the market order is submitted
OpenBalance(balance) ==
    /\ pc = "open_balance"
    /\ LET quantity == Quantity(balance, frame.signal.entryPrice)
           c0 == IF balance = 0 THEN Failed(cycle, "balance") ELSE cycle
           c1 == [c0 EXCEPT !.sizing = [balance |-> balance,
                                        entryPrice |-> frame.signal.entryPrice,
                                        quantity |-> quantity]]
       IN  IF QuantityTooSmall(quantity)
           THEN EndCycle(c1)
           ELSE /\ pc' = "open_market"
                /\ frame' = [frame EXCEPT !.quantity = quantity]
                /\ cycle' = Submitted(c1, "ENTRY", EntrySide(frame.signal), quantity, 0)
                /\ UNCHANGED inFlight
    /\ UNCHANGED <<tradingState, isRunning, venue, stopRequested, call>>

\* openPosition, lines 373-385: the market order answered; on success the position is
\* stored and the stop order is submitted
OpenMarket(order) ==
    /\ pc = "open_market"
    /\ OrderPlaced(order) => Len(tradingState.trades) < MaxTrades
    /\ IF OrderPlaced(order)
       THEN /\ tradingState' = Opened(tradingState,
                                      NewPosition(frame.signal, frame.quantity, order))
            /\ venue' = [venue EXCEPT !.positionAmt =
                            VenueFill(@, EntrySide(frame.signal), frame.quantity)]
            /\ pc' = "open_stop"
            /\ cycle' = Submitted(Answered(cycle, order), "STOP", StopSide(frame.signal),
                                  frame.quantity, toFixed4(frame.signal.stopLoss))
            /\ UNCHANGED <<frame, inFlight>>
       ELSE /\ EndCycle(Failed(Answered(cycle, order), "market"))
            /\ UNCHANGED <<tradingState, venue>>
    /\ UNCHANGED <<isRunning, stopRequested, call>>

\* openPosition, lines 385-390: the stop order answered; its result is not looked at
OpenStop(order) ==
    /\ pc = "open_stop"
    /\ LET sent == cycle.orders[Len(cycle.orders)]
       IN  IF order # Null
           THEN /\ venue' = [venue EXCEPT !.stops =
                                Append(@, [side |-> sent.side, quantity |-> sent.quantity,
                                           stopPrice |-> sent.stopPrice])]
                /\ EndCycle(Answered(cycle, order))
           ELSE /\ EndCycle(Failed(Answered(cycle, order), "stop"))
                /\ UNCHANGED venue
    /\ UNCHANGED <<tradingState, isRunning, stopRequested, call>>

\* getPosition (lines 176-192): the venue's position record, or null
PositionResponses == {Null, [positionAmt |-> venue.positionAmt]}

\* api.closePosition, lines 196-205: the position lookup answered; either there is
\* nothing to close (null goes back to closePosition, which then does nothing) or
\* the offsetting market order is submitted
ClosePosition(position) ==
    /\ pc = "close_position"
    /\ IF position = Null \/ position.positionAmt = 0
       THEN AfterPositionBranch(Failed(cycle, "close"), tradingState.priceData)
       ELSE LET positionAmt == Abs(position.positionAmt)
                side == IF position.positionAmt > 0 THEN "SELL" ELSE "BUY"
            IN  /\ pc' = "close_market"
                /\ frame' = [frame EXCEPT !.side = side, !.positionAmt = positionAmt]
                /\ cycle' = Submitted(cycle, "CLOSE", side, positionAmt, 0)
                /\ UNCHANGED inFlight
    /\ UNCHANGED <<tradingState, isRunning, venue, stopRequested, call>>

\* closePosition, lines 397-428: the offsetting order answered
CloseMarket(order) ==
    /\ pc = "close_market"
    /\ IF OrderPlaced(order)
       THEN /\ tradingState' = Closed(tradingState,
                                      NewTrade(frame.position, frame.reason,
                                               frame.exitPrice))
            /\ venue' = [venue EXCEPT !.positionAmt =
                            VenueFill(@, frame.side, frame.positionAmt)]
            /\ AfterPositionBranch(Answered(cycle, order), tradingState.priceData)
       ELSE /\ AfterPositionBranch(Failed(Answered(cycle, order), "close"),
                                   tradingState.priceData)
            /\ UNCHANGED <<tradingState, venue>>
    /\ UNCHANGED <<isRunning, stopRequested, call>>

----------------------------------------------------------------------------
\* HTTP handlers (lines 452-485)

\* GET /api/status, lines 455-461: the response body, built when getBalance has
\* answered
StatusResponse(balance) ==
    [balance |-> balance,
     inPosition |-> tradingState.inPosition,
     currentPosition |-> tradingState.currentPosition,
     totalTrades |-> Len(tradingState.trades)]

\* GET /api/status, lines 452-462: the handler reads the shared state and changes
\* nothing
Status ==
    /\ \E b \in BalanceResponses : StatusResponse(b).totalTrades >= 0
    /\ UNCHANGED vars

\* line 466: trades.reduce((sum, t) => sum + t.profit, 0)
RECURSIVE TotalProfit(_)
TotalProfit(trades) ==
    IF trades = <<>> THEN 0 ELSE Head(trades).profit + TotalProfit(Tail(trades))

\* GET /api/trades, lines 465-473: the response body (winRate is not modelled)
TradesResponse ==
    [trades |-> tradingState.trades,
     totalTrades |-> Len(tradingState.trades),
     winningTrades |-> Cardinality({i \in 1..Len(tradingState.trades) :
                                      tradingState.trades[i].profit > 0}),
     totalProfit |-> TotalProfit(tradingState.trades)]

\* GET /api/trades, lines 464-474: a synchronous handler that reads the shared
\* state and changes nothing
Trades ==
    /\ TradesResponse.totalTrades >= 0
    /\ UNCHANGED vars

\* POST /api/stop, lines 482-485 and 443-446 (tradingEngine is assigned before the
\* first await of startServer, so it is always set when a request is served)
Stop ==
    /\ isRunning' = FALSE
    /\ stopRequested' = TRUE
    /\ UNCHANGED <<tradingState, pc, frame, venue, inFlight, cycle, call>>

----------------------------------------------------------------------------
\* The venue: a resting STOP_MARKET order (lines 157-174) triggers and fills

StopTriggers(i) ==
    /\ i \in 1..Len(venue.stops)
    /\ venue' = [positionAmt |-> VenueFill(venue.positionAmt, venue.stops[i].side,
                                           venue.stops[i].quantity),
                 stops |-> [j \in 1..(Len(venue.stops) - 1) |->
                               IF j < i THEN venue.stops[j] ELSE venue.stops[j + 1]]]
    /\ UNCHANGED <<tradingState, isRunning, pc, frame, stopRequested, inFlight, cycle,
                   call>>

----------------------------------------------------------------------------
Next ==
    \/ InitLeverage
    \/ \E b \in BalanceResponses : InitBalance(b)
    \/ \E k \in KlineResponses : InitKlines(k)
    \/ LoopTest
    \/ \E k \in KlineResponses : CheckForSignals(k)
    \/ \E b \in BalanceResponses : OpenBalance(b)
    \/ \E o \in OrderResponses : OpenMarket(o)
    \/ \E o \in OrderResponses : OpenStop(o)
    \/ \E p \in PositionResponses : ClosePosition(p)
    \/ \E o \in OrderResponses : CloseMarket(o)
    \/ Status
    \/ Trades
    \/ Stop
    \/ \E i \in 1..MaxTrades : StopTriggers(i)

Spec == Init /\ [][Next]_vars

\* Scheduling: the event loop resumes the engine's task whenever the await it is
\* suspended on settles; every venue request settles (with an answer or with an
\* error, which the gateway turns into its failure value) and the timer of line
\* 439 fires. Requests to the HTTP handlers and the venue's fills may or may not
\* happen.
Fairness ==
    /\ WF_vars(InitLeverage)
    /\ WF_vars(\E b \in BalanceResponses : InitBalance(b))
    /\ WF_vars(\E k \in KlineResponses : InitKlines(k))
    /\ WF_vars(LoopTest)
    /\ WF_vars(\E k \in KlineResponses : CheckForSignals(k))
    /\ WF_vars(\E b \in BalanceResponses : OpenBalance(b))
    /\ WF_vars(\E o \in OrderResponses : OpenMarket(o))
    /\ WF_vars(\E o \in OrderResponses : OpenStop(o))
    /\ WF_vars(\E p \in PositionResponses : ClosePosition(p))
    /\ WF_vars(\E o \in OrderResponses : CloseMarket(o))

FairSpec == Init /\ [][Next]_vars /\ Fairness

----------------------------------------------------------------------------
\* The indicators called on their own, as checkForSignals calls them (lines 340,
\* 352), on arguments drawn from bounded sets

\* n bars: n-2 quiet bars, a bar moving to close c1, a bar moving on to close c2
\* on volume v
Series3(n, c1, c2, v) ==
    <<[count |-> n - 2, candle |-> BaseCandle],
      [count |-> 1,
       candle |-> Candle(Max(c1, BaseCandle.close), Min(c1, BaseCandle.close), c1,
                         BaseCandle.volume)],
      [count |-> 1, candle |-> Candle(Max(c1, c2), Min(c1, c2), c2, v)]>>

SeriesLens == (MA_PERIOD - MaxShort) .. (MA_PERIOD + MaxExtra)
\* the close of the bar before last: 3% below, at, 3% above the quiet price
PrevCloses == {9700, 10000, 10300}
\* the last bar's move from there
LastMoves == {-200, -100, -10, 0, 10, 100, 200}
LastVolumes == {BaseCandle.volume, 2 * BaseCandle.volume}

EntryArguments ==
    {Series3(n, c1, c1 + m, v) :
        n \in SeriesLens, c1 \in PrevCloses, m \in LastMoves, v \in LastVolumes}

\* stop-loss and take-profit levels, in 1/PxScale ticks, in either order
ExitLevels == {9990 * PxScale, 10000 * PxScale, 10010 * PxScale}
ExitPositions ==
    {[type |-> t, entryPrice |-> BaseCandle.close, stopLoss |-> sl, takeProfit |-> tp,
      quantity |-> 10, orderId |-> 101] :
        t \in {"LONG", "SHORT"}, sl \in ExitLevels, tp \in ExitLevels}
ExitPrices == {9980, 9990, 10000, 10010, 10020}

ExitCall(position, currentPrice) ==
    [NoCall EXCEPT !.fn = "checkExit", !.position = position,
                   !.currentPrice = currentPrice, !.result = Pending]

EntryCall(data) ==
    [NoCall EXCEPT !.fn = "checkEntrySignal", !.data = data, !.result = Pending]

IndicatorInit ==
    /\ tradingState = [balance |-> 0, inPosition |-> FALSE, currentPosition |-> Null,
                       trades |-> <<>>, priceData |-> <<>>]
    /\ isRunning = FALSE
    /\ pc = "init_leverage"
    /\ frame = EmptyFrame
    /\ venue = [positionAmt |-> 0, stops |-> <<>>]
    /\ stopRequested = FALSE
    /\ inFlight = 0
    /\ cycle = NewCycle(tradingState)
    /\ call \in {ExitCall(p, x) : p \in ExitPositions, x \in ExitPrices}
                  \cup {EntryCall(d) : d \in EntryArguments}

\* line 340: Indicators.checkExit(position, currentPrice)
CallCheckExit ==
    /\ call.fn = "checkExit" /\ call.result = Pending
    /\ call' = [call EXCEPT !.result = checkExit(call.position, call.currentPrice)]
    /\ UNCHANGED <<tradingState, isRunning, pc, frame, venue, stopRequested, inFlight,
                   cycle>>

\* line 352: Indicators.checkEntrySignal(data)
CallCheckEntrySignal ==
    /\ call.fn = "checkEntrySignal" /\ call.result = Pending
    /\ call' = [call EXCEPT !.result = checkEntrySignal(Candles(call.data))]
    /\ UNCHANGED <<tradingState, isRunning, pc, frame, venue, stopRequested, inFlight,
                   cycle>>

IndicatorNext == CallCheckExit \/ CallCheckEntrySignal

IndicatorSpec == IndicatorInit /\ [][IndicatorNext]_vars

----------------------------------------------------------------------------
\* Properties

Flat(ts) == ~ts.inPosition
OrdersOfKind(kind) == {i \in 1..Len(cycle.orders) : cycle.orders[i].kind = kind}

\* C1: in every state, and in every /api/status response, inPosition is true
\* exactly when currentPosition is not null
C1_FlagMatchesPosition ==
    /\ tradingState.inPosition <=> tradingState.currentPosition # Null
    /\ \A b \in BalanceResponses :
          StatusResponse(b).inPosition <=> StatusResponse(b).currentPosition # Null

\* openPosition is suspended on the stop order with the position stored
C1_Witness ==
    pc = "open_stop" /\ tradingState.inPosition /\ tradingState.currentPosition # Null

\* C2: a cycle in which a venue call failed (balance 0, market order null, stop
\* order null, close order null) ends with balance, inPosition, currentPosition
\* and the trade history as they were when the cycle began
C2_VenueFailureIsNoOp ==
    (pc = "sleep" /\ cycle.failures \cap {"balance", "market", "stop", "close"} # {})
        => AccountSnapshot = cycle.start

\* C3: a cycle whose candle fetch failed submits no order and leaves balance,
\* position and trade history as they were when the cycle began
C3_KlinesFailureIsNoOp ==
    "klines" \in cycle.failures
        => cycle.orders = <<>> /\ AccountSnapshot = cycle.start

\* C4: the trade history only grows, by appending, and by exactly one record on
\* each step that takes the controller from IN_POSITION to FLAT and none otherwise
C4_HistoryAppendOnly ==
    [][LET old == tradingState.trades
           new == tradingState'.trades
       IN  /\ Len(new) >= Len(old)
           /\ SubSeq(new, 1, Len(old)) = old
           /\ Len(new) = Len(old) + (IF tradingState.inPosition /\ Flat(tradingState')
                                     THEN 1 ELSE 0)]_vars

\* a second trade has been appended behind a first one
C4_Witness == Len(tradingState.trades) = 2 /\ Flat(tradingState)

\* C5: a cycle runs the exit check only if it began IN_POSITION and the entry check
\* only if it began FLAT, never both; a cycle that closed a position submits no
\* entry order and a cycle that opened one runs no exit check and submits no close
C5_OneCheckPerCycle ==
    /\ ~(cycle.exitChecked /\ cycle.entryChecked)
    /\ cycle.exitChecked => cycle.start.inPosition
    /\ cycle.entryChecked => Flat(cycle.start)
    /\ (pc = "sleep" /\ BarCount(tradingState.priceData) > 0)
          => (cycle.exitChecked \/ cycle.entryChecked)
    /\ Len(tradingState.trades) > Len(cycle.start.trades)
          => Flat(tradingState) /\ OrdersOfKind("ENTRY") = {} /\ OrdersOfKind("STOP") = {}
    /\ (Flat(cycle.start) /\ tradingState.inPosition)
          => ~cycle.exitChecked /\ OrdersOfKind("CLOSE") = {}

\* a cycle that began IN_POSITION has closed the position and ended
C5_Witness ==
    /\ pc = "sleep" /\ cycle.exitChecked
    /\ Len(tradingState.trades) > Len(cycle.start.trades)

\* C6, as claimed: a cycle submits at most one order, counting entry market
\* orders, stop orders and closing market orders alike
C6_AtMostOneOrder == Len(cycle.orders) <= 1

\* C6, amended: a cycle submits at most one market order (an entry or a close);
\* the only second order of a cycle is the protective stop that follows the
\* cycle's successful entry order, and a closing order is alone in its cycle
C6_OneOrderPlacingAction ==
    /\ Cardinality(OrdersOfKind("ENTRY") \cup OrdersOfKind("CLOSE")) <= 1
    /\ Len(cycle.orders) <= 2
    /\ Len(cycle.orders) = 2
          => /\ cycle.orders[1].kind = "ENTRY"
             /\ cycle.orders[1].response \notin {Null, Pending}
             /\ cycle.orders[2].kind = "STOP"
    /\ OrdersOfKind("CLOSE") # {} => Len(cycle.orders) = 1

\* a cycle has ended after submitting an entry order and its stop order
C6_Witness ==
    pc = "sleep" /\ Len(cycle.orders) = 2 /\ cycle.orders[2].kind = "STOP"

\* C7: at most one checkForSignals invocation is in flight
C7_CyclesNeverOverlap == inFlight <= 1

\* a cycle is in the middle of a venue round trip after a stop request was served
C7_Witness == inFlight = 1 /\ pc = "close_market" /\ stopRequested

\* C8: once a stop command has been received no evaluation cycle begins
C8_NoCycleAfterStop == [][stopRequested => inFlight' <= inFlight]_vars

\* C9: the quantity openPosition computes is the floor, in lots of 0.1, of
\* balance * POSITION_SIZE / 100 * LEVERAGE / entryPrice; when it is not positive
\* no order is submitted and the account stays FLAT and unchanged; when it is
\* positive it is the quantity of the entry order
C9_SizingAbort ==
    cycle.sizing # Null =>
        LET s == cycle.sizing
        IN  /\ s.quantity * 100 * s.entryPrice <= s.balance * POSITION_SIZE * LEVERAGE
            /\ s.balance * POSITION_SIZE * LEVERAGE < (s.quantity + 1) * 100 * s.entryPrice
            /\ s.quantity <= 0
                  => /\ cycle.orders = <<>>
                     /\ Flat(tradingState)
                     /\ AccountSnapshot = cycle.start
            /\ s.quantity > 0
                  => /\ Len(cycle.orders) >= 1
                     /\ cycle.orders[1].kind = "ENTRY"
                     /\ cycle.orders[1].quantity = s.quantity

\* an entry was abandoned on a positive balance too small for one lot
C9_Witness ==
    /\ pc = "sleep" /\ cycle.sizing # Null
    /\ cycle.sizing.balance > 0 /\ cycle.sizing.quantity = 0

\* C10, the part that does not depend on the stop price: the entry order is the
\* first order of its cycle, on the signal's side and of the computed quantity;
\* a stop order is the second order of its cycle, after an entry order that
\* succeeded, on the opposite side and of the same quantity; after a successful
\* entry the stored position carries the signal's direction, entry price,
\* stop-loss and take-profit, the quantity and the venue's order id
C10_EntryThenStop ==
    /\ \A i \in OrdersOfKind("ENTRY") :
          /\ i = 1 /\ Flat(cycle.start)
          /\ cycle.orders[i].quantity > 0
          /\ cycle.orders[i].quantity = cycle.sizing.quantity
          /\ cycle.orders[i].response = Pending
                => \/ frame.signal.type = "LONG" /\ cycle.orders[i].side = "BUY"
                   \/ frame.signal.type = "SHORT" /\ cycle.orders[i].side = "SELL"
          /\ cycle.orders[i].response \notin {Null, Pending}
                => LET p == tradingState.currentPosition
                   IN  /\ tradingState.inPosition /\ p # Null
                       /\ \/ p.type = "LONG" /\ cycle.orders[i].side = "BUY"
                          \/ p.type = "SHORT" /\ cycle.orders[i].side = "SELL"
                       /\ p.quantity = cycle.orders[i].quantity
                       /\ p.orderId = cycle.orders[i].response.orderId
                       /\ p.entryPrice = cycle.sizing.entryPrice
                       /\ pc = "open_stop"
                             => /\ p.type = frame.signal.type
                                /\ p.entryPrice = frame.signal.entryPrice
                                /\ p.stopLoss = frame.signal.stopLoss
                                /\ p.takeProfit = frame.signal.takeProfit
    /\ \A i \in OrdersOfKind("STOP") :
          /\ i = 2
          /\ cycle.orders[1].kind = "ENTRY"
          /\ cycle.orders[1].response \notin {Null, Pending}
          /\ cycle.orders[i].side # cycle.orders[1].side
          /\ cycle.orders[i].quantity = cycle.orders[1].quantity

\* C10, as claimed: the stop order's price is the signal's stopLoss
C10_StopAtStopLoss ==
    /\ C10_EntryThenStop
    /\ \A i \in OrdersOfKind("STOP") :
          cycle.orders[i].stopPrice * PxScale = tradingState.currentPosition.stopLoss

\* C10, amended: the stop order's price is the signal's stopLoss rounded to four
\* decimals (one tick), so it is within half a tick of it
C10_StopAtRoundedStopLoss ==
    /\ C10_EntryThenStop
    /\ \A i \in OrdersOfKind("STOP") :
          2 * Abs(cycle.orders[i].stopPrice * PxScale
                    - tradingState.currentPosition.stopLoss) <= PxScale

\* the venue has accepted the stop order of a position opened in this cycle
C10_Witness ==
    /\ pc = "sleep" /\ OrdersOfKind("STOP") = {2}
    /\ cycle.orders[2].response \notin {Null, Pending}
    /\ tradingState.inPosition

\* C11: a step appends a trade exactly when a closing order has succeeded; the
\* trade's profit is (exitPrice - entryPrice) * quantity * leverage for a LONG
\* position and (entryPrice - exitPrice) * quantity * leverage for a SHORT one,
\* the trade carries the closed position's direction, entry price and quantity,
\* the cycle's price as exit price and the exit check's reason, and the same step
\* sets currentPosition to null and inPosition to false
C11_CloseLedger ==
    [][LET closes == /\ pc = "close_market" /\ pc' # pc
                     /\ cycle'.orders[Len(cycle'.orders)].response # Null
           appends == Len(tradingState'.trades) > Len(tradingState.trades)
           p == tradingState.currentPosition
           t == tradingState'.trades[Len(tradingState'.trades)]
           exitPrice == LastCandle(tradingState.priceData).close
       IN  /\ closes <=> appends
           /\ appends =>
                 /\ tradingState.inPosition /\ p # Null
                 /\ t.type = p.type
                 /\ t.entryPrice = p.entryPrice
                 /\ t.quantity = p.quantity
                 /\ t.exitPrice = exitPrice
                 /\ checkExit(p, exitPrice).exit
                 /\ t.reason = checkExit(p, exitPrice).reason
                 /\ p.type = "LONG" =>
                       t.profit = (exitPrice - p.entryPrice) * p.quantity * LEVERAGE
                 /\ p.type = "SHORT" =>
                       t.profit = (p.entryPrice - exitPrice) * p.quantity * LEVERAGE
                 /\ p.type \in {"LONG", "SHORT"}
                 /\ tradingState'.currentPosition = Null
                 /\ ~tradingState'.inPosition]_vars

\* a SHORT position has been closed on its take-profit, with a gain
C11_Witness ==
    /\ pc = "sleep" /\ tradingState.trades # <<>>
    /\ LET t == tradingState.trades[Len(tradingState.trades)]
       IN  t.type = "SHORT" /\ t.reason = "TAKE_PROFIT" /\ t.profit > 0

\* C12: initialization stores the balance it read; after it the balance changes
\* only on a step that appends a trade, and then by that trade's profit, so that
\* balance minus the totalProfit of the trade history stays the balance read at
\* initialization
C12_BalanceIsInitialPlusProfits ==
    [][IF pc = "init_balance"
       THEN /\ tradingState'.balance \in BalanceResponses
            /\ tradingState'.trades = <<>>
       ELSE LET old == tradingState.trades
                new == tradingState'.trades
            IN  /\ new = old => tradingState'.balance = tradingState.balance
                /\ new # old =>
                      /\ Len(new) = Len(old) + 1
                      /\ tradingState'.balance
                            = tradingState.balance + new[Len(new)].profit
                /\ tradingState'.balance - TotalProfit(new)
                      = tradingState.balance - TotalProfit(old)]_vars

\* two closes, a loss and a gain, have moved the balance
C12_Witness ==
    /\ Len(tradingState.trades) = 2
    /\ tradingState.trades[1].profit < 0
    /\ tradingState.trades[2].profit > 0
    /\ \E b \in BalanceResponses :
          tradingState.balance = b + TradesResponse.totalProfit

\* a checkExit call has returned
ExitReturned == call.fn = "checkExit" /\ call.result # Pending

\* the stop-loss condition of the position's direction
StopLossHit(position, currentPrice) ==
    \/ position.type = "LONG" /\ currentPrice * PxScale <= position.stopLoss
    \/ position.type = "SHORT" /\ currentPrice * PxScale >= position.stopLoss

\* the take-profit condition of the position's direction
TakeProfitHit(position, currentPrice) ==
    \/ position.type = "LONG" /\ currentPrice * PxScale >= position.takeProfit
    \/ position.type = "SHORT" /\ currentPrice * PxScale <= position.takeProfit

ReportsExit(result, reason, price) ==
    result.exit /\ result.reason = reason /\ result.price = price

\* C13, as claimed: for every position and price the exit check reports a
\* stop-loss exit when the stop-loss condition of the direction holds, a
\* take-profit exit when the take-profit condition holds, no exit exactly when
\* neither holds, and the reported price is the price passed in
C13_ExitCheckAsClaimed ==
    ExitReturned =>
        LET p == call.position
            x == call.currentPrice
            r == call.result
        IN  /\ StopLossHit(p, x) => ReportsExit(r, "STOP_LOSS", x)
            /\ TakeProfitHit(p, x) => ReportsExit(r, "TAKE_PROFIT", x)
            /\ ~r.exit <=> (~StopLossHit(p, x) /\ ~TakeProfitHit(p, x))

\* C13, amended: the stop-loss condition is tested first; a take-profit exit is
\* reported when the take-profit condition holds and the stop-loss condition
\* does not; no exit exactly when neither holds; the reported price is the
\* price passed in
C13_ExitCheckStopLossFirst ==
    ExitReturned =>
        LET p == call.position
            x == call.currentPrice
            r == call.result
        IN  /\ StopLossHit(p, x) => ReportsExit(r, "STOP_LOSS", x)
            /\ (TakeProfitHit(p, x) /\ ~StopLossHit(p, x))
                  => ReportsExit(r, "TAKE_PROFIT", x)
            /\ ~r.exit <=> (~StopLossHit(p, x) /\ ~TakeProfitHit(p, x))

\* a SHORT position's take-profit was reported at a price equal to the level
C13_Witness ==
    /\ ExitReturned
    /\ call.position.type = "SHORT"
    /\ call.currentPrice * PxScale = call.position.takeProfit
    /\ call.position.takeProfit < call.position.stopLoss
    /\ ReportsExit(call.result, "TAKE_PROFIT", call.currentPrice)

\* a checkEntrySignal call has returned
EntryReturned == call.fn = "checkEntrySignal" /\ call.result # Pending

\* the signal's direction, "NONE" when there is no signal
Direction(signal) == IF signal = Null THEN "NONE" ELSE signal.type

\* C14: on a series of at least 100 bars the entry signal is LONG exactly when
\* the ATR trailing-stop value is above the 100-period moving average and the
\* volume/momentum signal is BUY, SHORT exactly when it is below and the signal
\* is SELL, absent otherwise; a signal's stopLoss is the moving average and its
\* entry price the last close; the result is never both LONG and SHORT
C14_EntrySignalRule ==
    (EntryReturned /\ BarCount(call.data) >= 100) =>
        LET data == Candles(call.data)
            ma100 == calculateSMA(data, MA_PERIOD).sum * (PxScale \div MA_PERIOD)
            atrStop == calculateATRTrailingStop(data, ATR_PERIOD, ATR_MULTIPLIER)
            momentum == detectSmartMoneySignal(data)
            signal == call.result
        IN  /\ Direction(signal) \in {"LONG", "SHORT", "NONE"}
            /\ Direction(signal) = "LONG"
                  <=> (atrStop.value > ma100 /\ momentum = "BUY")
            /\ Direction(signal) = "SHORT"
                  <=> (atrStop.value < ma100 /\ momentum = "SELL")
            /\ signal # Null
                  => /\ signal.stopLoss = ma100
                     /\ signal.stopLoss * MA_PERIOD
                           = SumClose(data, Len(data) - 99, Len(data)) * PxScale
                     /\ signal.entryPrice = LastCandle(call.data).close

\* a SHORT signal was returned on a series longer than 100 bars
C14_Witness ==
    /\ EntryReturned /\ BarCount(call.data) > 100
    /\ Direction(call.result) = "SHORT"

\* checkEntrySignal of every series of fewer than 100 bars among the arguments
ShortSeriesSignal ==
    [d \in {e \in EntryArguments \cup KlineResponses : BarCount(e) < 100}
        |-> checkEntrySignal(Candles(d))]

\* C15: checkEntrySignal returns no signal on any series of fewer than 100 bars,
\* whatever the bars; a cycle that began FLAT and whose stored series has fewer
\* than 100 bars submits no order and leaves the controller FLAT
C15_NoSignalOnShortSeries ==
    /\ \A d \in DOMAIN ShortSeriesSignal : ShortSeriesSignal[d] = Null
    /\ (Flat(cycle.start) /\ BarCount(tradingState.priceData) < 100)
          => /\ cycle.orders = <<>>
             /\ cycle.sizing = Null
             /\ Flat(tradingState)
             /\ pc \notin {"open_balance", "open_market", "open_stop"}

\* a FLAT cycle ran the entry check on a 99-bar series whose last bar gives a
\* signal on a full series, and ended
C15_Witness ==
    /\ pc = "sleep" /\ cycle.entryChecked /\ Flat(cycle.start)
    /\ BarCount(tradingState.priceData) = 99
    /\ LastCandle(tradingState.priceData).close = SignalBar[1]
    /\ LastCandle(tradingState.priceData).volume = SignalBar[2]

\* C16: a cycle that began IN_POSITION and whose exit check did not fire submits
\* no order and leaves balance, inPosition, every field of currentPosition and
\* the trade history as they were; the unrealized P&L it logs is the price
\* difference in the position's direction times the quantity, without the
\* leverage, and is stored nowhere in the account state
C16_NoExitCycleIsNoTransition ==
    /\ cycle.logged # Null =>
          LET p == cycle.start.currentPosition
              x == cycle.logged.price
          IN  /\ cycle.start.inPosition /\ cycle.exitChecked
              /\ pc \in {"sleep", "done"}
              /\ ~StopLossHit(p, x) /\ ~TakeProfitHit(p, x)
              /\ cycle.orders = <<>>
              /\ AccountSnapshot = cycle.start
              /\ tradingState.currentPosition = p
              /\ p.type = "LONG" =>
                    cycle.logged.unrealizedPnL = (x - p.entryPrice) * p.quantity
              /\ p.type = "SHORT" =>
                    cycle.logged.unrealizedPnL = (p.entryPrice - x) * p.quantity
              /\ p.type \in {"LONG", "SHORT"}
    /\ (pc = "sleep" /\ cycle.exitChecked /\ cycle.orders = <<>>
          /\ cycle.failures \cap {"close"} = {})
          => cycle.logged # Null

\* a cycle has left a LONG position open and logged a gain
C16_Witness ==
    /\ pc = "sleep" /\ cycle.logged # Null
    /\ tradingState.inPosition /\ tradingState.currentPosition.type = "LONG"
    /\ cycle.logged.unrealizedPnL > 0

\* C17: while no stop command has been issued, a cycle that has begun ends,
\* whatever failed in it, and after a cycle has ended the loop begins another
C17_LoopSurvivesFailures ==
    /\ (inFlight = 1 /\ ~stopRequested) ~> (pc = "sleep" \/ stopRequested)
    /\ (pc = "sleep" /\ ~stopRequested) ~> (pc = "check_klines" \/ stopRequested)

\* a cycle in which both the candle fetch and an order failed has ended and no
\* stop command has been issued
C17_Witness ==
    /\ pc = "sleep" /\ ~stopRequested
    /\ "klines" \in cycle.failures /\ "market" \in cycle.failures

\* the position a signal opens (quantity and order id do not matter here)
PositionOf(signal) == NewPosition(signal, 1, [orderId |-> 101])

\* C18: every signal checkEntrySignal returns has stopLoss < entryPrice <
\* takeProfit when LONG and takeProfit < entryPrice < stopLoss when SHORT, and
\* the exit check of the position it opens, at the entry price, reports no exit
C18_BracketAroundEntry ==
    (EntryReturned /\ call.result # Null) =>
        LET signal == call.result
            entry == signal.entryPrice * PxScale
        IN  /\ signal.type = "LONG"
                  => signal.stopLoss < entry /\ entry < signal.takeProfit
            /\ signal.type = "SHORT"
                  => signal.takeProfit < entry /\ entry < signal.stopLoss
            /\ ~checkExit(PositionOf(signal), signal.entryPrice).exit

\* C18 for LONG signals only, which the code does guarantee
C18_LongBracketAroundEntry ==
    (EntryReturned /\ Direction(call.result) = "LONG") =>
        LET signal == call.result
            entry == signal.entryPrice * PxScale
        IN  /\ signal.stopLoss < entry /\ entry < signal.takeProfit
            /\ ~checkExit(PositionOf(signal), signal.entryPrice).exit

\* a SHORT signal was returned whose stop-loss is below its entry price
C18_InvertedShort ==
    /\ EntryReturned /\ Direction(call.result) = "SHORT"
    /\ call.result.stopLoss < call.result.entryPrice * PxScale
    /\ call.result.takeProfit > call.result.entryPrice * PxScale
    /\ checkExit(PositionOf(call.result), call.result.entryPrice).exit

\* C19: once a cycle begins with the controller IN_POSITION and no position
\* left at the venue, the controller eventually becomes FLAT, unless some later
\* cycle's exit check does not fire or the loop has been stopped
C19_EventuallyFlat ==
    (pc = "check_klines" /\ tradingState.inPosition /\ venue.positionAmt = 0)
        ~> (Flat(tradingState) \/ cycle.logged # Null \/ pc = "done")

\* the closing call found no position at the venue and the controller stays
\* IN_POSITION
C19_Stuck ==
    /\ pc = "sleep" /\ "close" \in cycle.failures /\ cycle.orders = <<>>
    /\ tradingState.inPosition /\ venue.positionAmt = 0

\* C20: whenever the controller is FLAT no stop order it placed rests at the
\* venue
C20_NoStopWhileFlat == Flat(tradingState) => venue.stops = <<>>

\* C20, second part: the stop orders resting at the venue never outnumber the
\* positions the controller holds, so none outlives its position into the
\* lifetime of a later one
C20_NoStopOutlivesPosition ==
    Len(venue.stops) <= (IF tradingState.inPosition THEN 1 ELSE 0)

============================================================================
